---- MODULE Spec2Model ----
(***************************************************************************)
(* Model of two pieces of the VMM:                                         *)
(*   - src/vmm/src/arch/aarch64/mod.rs : guest memory layout helpers       *)
(*     (arch_memory_regions, get_fdt_addr, initrd_load_addr) and the boot  *)
(*     orchestrator configure_system_for_boot;                             *)
(*   - src/vmm/src/dumbo/pdu/bytes.rs  : the network byte order accessors  *)
(*     NetworkBytes / NetworkBytesMut over byte slices.                    *)
(*                                                                         *)
(* Three specifications share the variables: SpecMem (layout helpers),     *)
(* SpecBoot (the orchestrator) and SpecBytes (the byte accessors).  Each   *)
(* keeps the other parts' variables at their idle values.                  *)
(*                                                                         *)
(* Machine words.  usize and u64 are both 64 bits wide on aarch64.  The    *)
(* model keeps the modular arithmetic and scales the width down to         *)
(* WORD_BITS bits, and scales the layout constants with it, keeping their  *)
(* relations (page size a power of two, FDT_MAX_SIZE a whole number of     *)
(* pages, DRAM_MEM_START page aligned and above FDT_MAX_SIZE,              *)
(* DRAM_MEM_START + DRAM_MEM_MAX_SIZE inside the address space).           *)
(*                                                                         *)
(* Integer overflow.  `a + b` and `a - b` on usize panic when the crate is *)
(* built with overflow checks (the dev/test profile) and wrap otherwise    *)
(* (the release profile).  overflow_checks is the build's choice, fixed    *)
(* for a run, and both choices are explored.                               *)
(***************************************************************************)
EXTENDS Integers, Sequences, FiniteSets, TLC

VARIABLES
    overflow_checks,  \* the build: TRUE = overflow panics, FALSE = it wraps
    guest_mem,        \* GuestMemoryMmap: sequence of regions [start, len]
    ret,              \* the last layout helper call: [op, arg, out]
    pc,               \* configure_system_for_boot: position in the function
    vcpus,            \* the vcpus slice: sequence of [configured, mpidr]
    idx,              \* the iterator position of the running loop
    vcpu_mpidr,       \* the Vec collected at lines 99-102
    fdt_args,         \* the MPIDR list create_fdt was called with, or NoFdt
    fdt_writes,       \* sequence of guest addresses write_slice was called on
    result,           \* "running", "Ok", an error kind, or "panic"
    trace,            \* history of the steps the call has executed
    buf,              \* the underlying byte array
    view,             \* the slice view over buf: [kind, len]
    written,          \* history: offset -> [width, value] of completed writes
    clean,            \* history: every write so far was in bounds and disjoint
    nwrites,          \* history: number of writes attempted
    last              \* the last byte accessor call and what it did

memvars   == <<guest_mem, ret>>
bootvars  == <<pc, vcpus, idx, vcpu_mpidr, fdt_args, fdt_writes, result, trace>>
bytesvars == <<buf, view, written, clean, nwrites, last>>
vars      == <<overflow_checks, memvars, bootvars, bytesvars>>

----------------------------------------------------------------------------
(* Bounds of the model *)

WORD_BITS    == 6   \* width of the scaled machine word
MaxRegionLen == 14  \* longest guest memory region explored
MaxVcpus     == 3   \* longest vcpus slice explored
MaxMpidr     == 2   \* MPIDR values are 0..MaxMpidr
MaxBufLen    == 6   \* longest underlying byte buffer explored
MaxWrites    == 2   \* most writes attempted through one buffer

WORD == 2 ^ WORD_BITS
Words == 0 .. (WORD - 1)

----------------------------------------------------------------------------
(* Layout constants (arch/aarch64/layout.rs and arch/mod.rs), scaled *)

GUEST_PAGE_SIZE   == 4
FDT_MAX_SIZE      == 8
DRAM_MEM_START    == 16
DRAM_MEM_MAX_SIZE == 32

----------------------------------------------------------------------------
(* Guest memory and guest addresses (vm_memory), as used by the helpers *)

Min(a, b) == IF a <= b THEN a ELSE b

Max(S) == CHOOSE x \in S : \A y \in S : y <= x

\* GuestAddress::checked_sub: None on underflow
None == [kind |-> "None"]
Some(v) == [kind |-> "Some", val |-> v]
Panic == [kind |-> "Panic"]

checked_sub(addr, n) == IF n > addr THEN None ELSE Some(addr - n)

\* GuestMemory::last_addr: the highest address of any region
last_addr(mem) ==
    Max({mem[i].start + mem[i].len - 1 : i \in 1 .. Len(mem)})

\* GuestMemory::address_in_range: the address lies in some region
address_in_range(mem, addr) ==
    \E i \in 1 .. Len(mem) :
        mem[i].start <= addr /\ addr < mem[i].start + mem[i].len

\* The guest memories explored: one or two non-empty, disjoint regions in
\* ascending order.  A single region at DRAM_MEM_START is what
\* arch_memory_regions describes; the others exercise the underflow of the
\* checked subtraction and a candidate address that falls into a hole.
SECOND_START == DRAM_MEM_START + 2 * FDT_MAX_SIZE

RegionStarts == {0, DRAM_MEM_START, SECOND_START}

Regions ==
    {r \in [start : RegionStarts, len : 1 .. MaxRegionLen] :
        r.start + r.len <= WORD}

Memories ==
    {<<r>> : r \in Regions}
    \cup {p \in Regions \X Regions : p[1].start + p[1].len <= p[2].start}

\* test_utils::arch_mem(size): one region, as arch_memory_regions lays it out
ArchMem(size) == <<[start |-> DRAM_MEM_START, len |-> size]>>

----------------------------------------------------------------------------
(* arch/aarch64/mod.rs: the layout helpers *)

\* usize addition: panics with overflow checks, wraps without
add_usize(a, b) ==
    IF a + b < WORD THEN Some(a + b)
    ELSE IF overflow_checks THEN Panic
    ELSE Some((a + b) % WORD)

\* the closure of initrd_load_addr:
\*   (size + (GUEST_PAGE_SIZE - 1)) & !(GUEST_PAGE_SIZE - 1)
round_to_pagesize(size) ==
    LET s == add_usize(size, GUEST_PAGE_SIZE - 1)
    IN  IF s.kind = "Panic" THEN Panic
        ELSE Some(s.val - (s.val % GUEST_PAGE_SIZE))

arch_memory_regions_unclamped(size) == << <<DRAM_MEM_START, size>> >>

arch_memory_regions(size) ==
    LET dram_size == Min(size, DRAM_MEM_MAX_SIZE)
    IN  << <<DRAM_MEM_START, dram_size>> >>

get_fdt_addr_unchecked_range(mem) ==
    LET addr == checked_sub(last_addr(mem), FDT_MAX_SIZE - 1)
    IN  IF addr.kind = "Some" THEN addr.val ELSE DRAM_MEM_START

get_fdt_addr_off_by_one(mem) ==
    LET addr == checked_sub(last_addr(mem), FDT_MAX_SIZE)
    IN  IF addr.kind = "Some" /\ address_in_range(mem, addr.val)
        THEN addr.val
        ELSE DRAM_MEM_START

get_fdt_addr(mem) ==
    LET addr == checked_sub(last_addr(mem), FDT_MAX_SIZE - 1)
    IN  IF addr.kind = "Some" /\ address_in_range(mem, addr.val)
        THEN addr.val
        ELSE DRAM_MEM_START

initrd_load_addr_unrounded(guest_mem_, initrd_size) ==
    LET offset == checked_sub(get_fdt_addr(guest_mem_), initrd_size)
    IN  IF offset.kind = "Some" /\ address_in_range(guest_mem_, offset.val)
        THEN Some(offset.val)
        ELSE None

initrd_load_addr(guest_mem_, initrd_size) ==
    LET rounded == round_to_pagesize(initrd_size)
    IN  IF rounded.kind = "Panic" THEN Panic
        ELSE LET offset == checked_sub(get_fdt_addr(guest_mem_), rounded.val)
             IN  IF offset.kind = "Some"
                    /\ address_in_range(guest_mem_, offset.val)
                 THEN Some(offset.val)
                 ELSE None

\* ret holds one call of a helper on guest_mem: the helpers are pure, so a
\* run makes one call and every (memory, build, argument) is a run
NoCall == [op |-> "none", arg |-> 0, out |-> 0]

MemInit ==
    /\ overflow_checks \in BOOLEAN
    /\ guest_mem \in Memories
    /\ ret = NoCall

MemIdle ==
    /\ guest_mem = ArchMem(FDT_MAX_SIZE)
    /\ ret = NoCall

ArchMemoryRegions ==
    /\ ret.op = "none"
    /\ \E size \in Words :
          ret' = [op |-> "arch_memory_regions", arg |-> size,
                  out |-> arch_memory_regions(size)]
    /\ UNCHANGED <<overflow_checks, guest_mem, bootvars, bytesvars>>

GetFdtAddr ==
    /\ ret.op = "none"
    /\ ret' = [op |-> "get_fdt_addr", arg |-> 0, out |-> get_fdt_addr(guest_mem)]
    /\ UNCHANGED <<overflow_checks, guest_mem, bootvars, bytesvars>>

InitrdLoadAddr ==
    /\ ret.op = "none"
    /\ \E initrd_size \in Words :
          ret' = [op |-> "initrd_load_addr", arg |-> initrd_size,
                  out |-> initrd_load_addr(guest_mem, initrd_size)]
    /\ UNCHANGED <<overflow_checks, guest_mem, bootvars, bytesvars>>

NextMem == ArchMemoryRegions \/ GetFdtAddr \/ InitrdLoadAddr

----------------------------------------------------------------------------
(* arch/aarch64/mod.rs: configure_system_for_boot *)

\* pc names the call the function executes next:
\*   "new"            CpuConfiguration::new            (line 76)
\*   "apply_template" CpuConfiguration::apply_template (lines 79-87)
\*   "configure"      kvm_vcpu.configure of vcpus[idx] (lines 89-98)
\*   "get_mpidr"      kvm_vcpu.get_mpidr of vcpus[idx] (lines 99-102)
\*   "as_cstring"     boot_cmdline.as_cstring          (lines 103-105)
\*   "create_fdt"     fdt::create_fdt                  (lines 107-115)
\*   "write_slice"    guest_memory.write_slice         (lines 117-122)
\*   "returned"       the call has returned or panicked

NoFdt == [called |-> FALSE]

Event(step, i, ok) == [step |-> step, i |-> i, ok |-> ok]

\* where a loop over the vcpus slice goes: into its body, or past it
LoopEntry(body, after) == IF Len(vcpus) = 0 THEN after ELSE body

BootInit ==
    /\ pc = "new"
    /\ \E n \in 0 .. MaxVcpus :
          vcpus \in [1 .. n -> [configured : {FALSE}, mpidr : 0 .. MaxMpidr]]
    /\ idx = 1
    /\ vcpu_mpidr = <<>>
    /\ fdt_args = NoFdt
    /\ fdt_writes = <<>>
    /\ result = "running"
    /\ trace = <<>>

BootIdle ==
    /\ pc = "idle"
    /\ vcpus = <<>>
    /\ idx = 1
    /\ vcpu_mpidr = <<>>
    /\ fdt_args = NoFdt
    /\ fdt_writes = <<>>
    /\ result = "running"
    /\ trace = <<>>

\* the function returns: `?` on an Err returns the converted error at once,
\* Ok(()) is the last line
Return(kind) ==
    /\ result' = kind
    /\ pc' = "returned"

\* line 76: CpuConfiguration::new(cpu_template, vcpus)?
BuildCpuConfig ==
    /\ pc = "new"
    /\ \E ok \in BOOLEAN :
          /\ trace' = Append(trace, Event("new", 0, ok))
          /\ IF ok
             THEN pc' = "apply_template" /\ UNCHANGED result
             ELSE Return("VcpuConfig")
    /\ UNCHANGED <<overflow_checks, memvars, bytesvars,
                   vcpus, idx, vcpu_mpidr, fdt_args, fdt_writes>>

\* lines 79-87: apply_template, VcpuConfig { .. }, optional_capabilities()
ApplyTemplate ==
    /\ pc = "apply_template"
    /\ trace' = Append(trace, Event("apply_template", 0, TRUE))
    /\ pc' = LoopEntry("configure", "as_cstring")  \* both loops are empty together
    /\ idx' = 1
    /\ UNCHANGED <<overflow_checks, memvars, bytesvars,
                   vcpus, vcpu_mpidr, fdt_args, fdt_writes, result>>

ConfigureVcpu_break_early ==
    /\ pc = "configure"
    /\ \E ok \in BOOLEAN :
          /\ trace' = Append(trace, Event("configure", idx, ok))
          /\ IF ok
             THEN /\ vcpus' = [vcpus EXCEPT ![idx].configured = TRUE]
                  /\ pc' = "get_mpidr"
                  /\ idx' = 1
                  /\ UNCHANGED result
             ELSE /\ Return("VcpuConfigure")
                  /\ UNCHANGED <<vcpus, idx>>
    /\ UNCHANGED <<overflow_checks, memvars, bytesvars,
                   vcpu_mpidr, fdt_args, fdt_writes>>

ConfigureVcpu_ignore_error ==
    /\ pc = "configure"
    /\ \E ok \in BOOLEAN :
          /\ trace' = Append(trace, Event("configure", idx, ok))
          /\ vcpus' = [vcpus EXCEPT ![idx].configured = ok]
          /\ IF idx < Len(vcpus)
             THEN pc' = "configure" /\ idx' = idx + 1
             ELSE pc' = "get_mpidr" /\ idx' = 1
          /\ UNCHANGED result
    /\ UNCHANGED <<overflow_checks, memvars, bytesvars,
                   vcpu_mpidr, fdt_args, fdt_writes>>

\* lines 89-98: one iteration of `for vcpu in vcpus.iter_mut()`
ConfigureVcpu ==
    /\ pc = "configure"
    /\ \E ok \in BOOLEAN :
          /\ trace' = Append(trace, Event("configure", idx, ok))
          /\ IF ok
             THEN /\ vcpus' = [vcpus EXCEPT ![idx].configured = TRUE]
                  /\ IF idx < Len(vcpus)
                     THEN pc' = "configure" /\ idx' = idx + 1
                     ELSE pc' = "get_mpidr" /\ idx' = 1
                  /\ UNCHANGED result
             ELSE /\ Return("VcpuConfigure")
                  /\ UNCHANGED <<vcpus, idx>>
    /\ UNCHANGED <<overflow_checks, memvars, bytesvars,
                   vcpu_mpidr, fdt_args, fdt_writes>>

CollectMpidr_prepend ==
    /\ pc = "get_mpidr"
    /\ trace' = Append(trace, Event("get_mpidr", idx, TRUE))
    /\ vcpu_mpidr' = <<vcpus[idx].mpidr>> \o vcpu_mpidr
    /\ IF idx < Len(vcpus)
       THEN pc' = "get_mpidr" /\ idx' = idx + 1
       ELSE pc' = "as_cstring" /\ idx' = 1
    /\ UNCHANGED <<overflow_checks, memvars, bytesvars,
                   vcpus, fdt_args, fdt_writes, result>>

\* lines 99-102: one element of vcpus.iter_mut().map(get_mpidr).collect()
CollectMpidr ==
    /\ pc = "get_mpidr"
    /\ trace' = Append(trace, Event("get_mpidr", idx, TRUE))
    /\ vcpu_mpidr' = Append(vcpu_mpidr, vcpus[idx].mpidr)
    /\ IF idx < Len(vcpus)
       THEN pc' = "get_mpidr" /\ idx' = idx + 1
       ELSE pc' = "as_cstring" /\ idx' = 1
    /\ UNCHANGED <<overflow_checks, memvars, bytesvars,
                   vcpus, fdt_args, fdt_writes, result>>

\* lines 103-105: as_cstring().expect(..) panics on an interior NUL
CmdlineAsCstring ==
    /\ pc = "as_cstring"
    /\ \E ok \in BOOLEAN :
          /\ trace' = Append(trace, Event("as_cstring", 0, ok))
          /\ IF ok
             THEN pc' = "create_fdt" /\ UNCHANGED result
             ELSE Return("panic")
    /\ UNCHANGED <<overflow_checks, memvars, bytesvars,
                   vcpus, idx, vcpu_mpidr, fdt_args, fdt_writes>>

\* lines 107-115: fdt::create_fdt(&vmm.guest_memory, vcpu_mpidr, ..)?
CreateFdt ==
    /\ pc = "create_fdt"
    /\ \E ok \in BOOLEAN :
          /\ trace' = Append(trace, Event("create_fdt", 0, ok))
          /\ fdt_args' = [called |-> TRUE, mpidrs |-> vcpu_mpidr, built |-> ok]
          /\ IF ok
             THEN pc' = "write_slice" /\ UNCHANGED result
             ELSE Return("SetupFDT")
    /\ UNCHANGED <<overflow_checks, memvars, bytesvars,
                   vcpus, idx, vcpu_mpidr, fdt_writes>>

\* lines 117-122: write_slice(fdt.as_slice(), fdt_address)?; Ok(())
WriteFdt ==
    /\ pc = "write_slice"
    /\ \E ok \in BOOLEAN :
          /\ trace' = Append(trace, Event("write_slice", 0, ok))
          /\ fdt_writes' = Append(fdt_writes,
                                  [addr |-> get_fdt_addr(guest_mem), ok |-> ok])
          /\ IF ok THEN Return("Ok") ELSE Return("MemoryError")
    /\ UNCHANGED <<overflow_checks, memvars, bytesvars,
                   vcpus, idx, vcpu_mpidr, fdt_args>>

NextBoot ==
    \/ BuildCpuConfig
    \/ ApplyTemplate
    \/ ConfigureVcpu
    \/ CollectMpidr
    \/ CmdlineAsCstring
    \/ CreateFdt
    \/ WriteFdt

----------------------------------------------------------------------------
(* utils/byte_order.rs: the big-endian helpers the accessors call.  The    *)
(* bounds of an access are enforced by the accessor's own assertion and    *)
(* slice indexing; the helpers pair the slice's bytes with the value's     *)
(* bytes and copy as many as both hold.                                    *)

U16Values == {123, 258}
U32Values == {1147, 16909060}

\* <int>::to_be_bytes: most significant byte first
to_be_bytes(value, width) ==
    [i \in 1 .. width |-> (value \div (256 ^ (width - i))) % 256]

\* <int>::from_be_bytes
RECURSIVE from_be_bytes(_)
from_be_bytes(bs) ==
    IF bs = <<>> THEN 0
    ELSE 256 * from_be_bytes(SubSeq(bs, 1, Len(bs) - 1)) + bs[Len(bs)]

write_be(slice, value, width) ==
    [i \in 1 .. Len(slice) |->
        IF i <= width THEN to_be_bytes(value, width)[i] ELSE slice[i]]

read_be(input, width) ==
    from_be_bytes([i \in 1 .. width |-> IF i <= Len(input) THEN input[i] ELSE 0])

write_be_u16(slice, value) == write_be(slice, value, 2)
write_be_u32(slice, value) == write_be(slice, value, 4)
read_be_u16(input) == read_be(input, 2)
read_be_u32(input) == read_be(input, 4)

----------------------------------------------------------------------------
(* dumbo/pdu/bytes.rs: NetworkBytes and NetworkBytesMut on byte slices *)

\* usize subtraction: panics with overflow checks, wraps without
sub_usize(a, b) ==
    IF a >= b THEN Some(a - b)
    ELSE IF overflow_checks THEN Panic
    ELSE Some(a - b + WORD)

\* &self[offset..]: panics when offset > self.len()
slice_from(bytes, offset) ==
    IF offset > Len(bytes) THEN Panic
    ELSE Some(SubSeq(bytes, offset + 1, Len(bytes)))

\* &self[..len]: panics when len > self.len()
slice_to(bytes, len) ==
    IF len > Len(bytes) THEN Panic
    ELSE Some(SubSeq(bytes, 1, len))

\* the reads are pure: they are operators, evaluated on the view where a
\* property speaks of a read
ntohs_unchecked(bytes, offset) ==
    LET tail == slice_from(bytes, offset)
    IN  IF tail.kind = "Panic" THEN Panic ELSE Some(read_be_u16(tail.val))

ntohl_unchecked(bytes, offset) ==
    LET tail == slice_from(bytes, offset)
    IN  IF tail.kind = "Panic" THEN Panic ELSE Some(read_be_u32(tail.val))

shrink_unchecked_one_short(bytes, len) ==
    IF len = 0 THEN slice_to(bytes, len) ELSE slice_to(bytes, len - 1)

shrink_unchecked(bytes, len) == slice_to(bytes, len)

\* assert!(offset <= self.len() - size_of::<u16>());
\* byte_order::write_be_u16(&mut self[offset..], value)
htons_unchecked(bytes, offset, value) ==
    LET limit == sub_usize(Len(bytes), 2)
    IN  IF limit.kind = "Panic" THEN Panic
        ELSE IF ~(offset <= limit.val) THEN Panic
        ELSE LET tail == slice_from(bytes, offset)
             IN  IF tail.kind = "Panic" THEN Panic
                 ELSE Some(SubSeq(bytes, 1, offset)
                           \o write_be_u16(tail.val, value))

htonl_unchecked_shifted(bytes, offset, value) ==
    LET limit == sub_usize(Len(bytes), 4)
    IN  IF limit.kind = "Panic" THEN Panic
        ELSE IF ~(offset <= limit.val) THEN Panic
        ELSE LET tail == slice_from(bytes, offset + 1)
             IN  IF tail.kind = "Panic" THEN Panic
                 ELSE Some(SubSeq(bytes, 1, offset + 1)
                           \o write_be_u32(tail.val, value))

\* assert!(offset <= self.len() - size_of::<u32>());
\* byte_order::write_be_u32(&mut self[offset..], value)
htonl_unchecked(bytes, offset, value) ==
    LET limit == sub_usize(Len(bytes), 4)
    IN  IF limit.kind = "Panic" THEN Panic
        ELSE IF ~(offset <= limit.val) THEN Panic
        ELSE LET tail == slice_from(bytes, offset)
             IN  IF tail.kind = "Panic" THEN Panic
                 ELSE Some(SubSeq(bytes, 1, offset)
                           \o write_be_u32(tail.val, value))

\* the bytes the view covers: views start at the buffer's first byte
\* (buf.as_mut(), buf.as_ref()) and shrink_unchecked keeps a prefix
View == SubSeq(buf, 1, view.len)

Offsets == 0 .. (MaxBufLen + 1)

\* a call, its outcome, the view's length when it was made and whether it
\* changed a byte of the buffer
NoOp == [op |-> "none", offset |-> 0, width |-> 0, value |-> 0,
         outcome |-> "ok", len |-> 0, changed |-> FALSE]

Call(op, offset, width, value, outcome, changed) ==
    [op |-> op, offset |-> offset, width |-> width, value |-> value,
     outcome |-> outcome, len |-> view.len, changed |-> changed]

BytesInit ==
    /\ overflow_checks \in BOOLEAN
    /\ \E n \in 0 .. MaxBufLen : buf = [i \in 1 .. n |-> 0]
    /\ view = [kind |-> "mut", len |-> Len(buf)]
    /\ written = {}
    /\ clean = TRUE
    /\ nwrites = 0
    /\ last = NoOp

BytesIdle ==
    /\ buf = <<>>
    /\ view = [kind |-> "mut", len |-> 0]
    /\ written = {}
    /\ clean = TRUE
    /\ nwrites = 0
    /\ last = NoOp

\* history of a write of `width` bytes at `offset`
Overlaps(offset, width) ==
    \E e \in written :
        /\ offset < e.offset + e.width
        /\ e.offset < offset + width
        /\ ~(e.offset = offset /\ e.width = width)

Record(offset, width, value, res) ==
    /\ nwrites' = nwrites + 1
    /\ clean' = (clean /\ offset + width <= view.len /\ ~Overlaps(offset, width))
    /\ written' =
          IF ~clean' THEN {}
          ELSE IF res.kind = "Some"
          THEN {e \in written : ~(e.offset = offset /\ e.width = width)}
               \cup {[offset |-> offset, width |-> width, value |-> value]}
          ELSE written

\* a write through the mutable view lands in the underlying buffer
Stored(res) ==
    IF res.kind = "Some"
    THEN res.val \o SubSeq(buf, view.len + 1, Len(buf))
    ELSE buf

Outcome(res) == IF res.kind = "Panic" THEN "panic" ELSE "ok"

Htons ==
    /\ last.outcome = "ok"
    /\ view.kind = "mut"
    /\ nwrites < MaxWrites
    /\ \E offset \in Offsets, value \in U16Values :
          LET res == htons_unchecked(View, offset, value)
          IN  /\ buf' = Stored(res)
              /\ Record(offset, 2, value, res)
              /\ last' = Call("htons", offset, 2, value, Outcome(res),
                               Stored(res) # buf)
    /\ UNCHANGED <<overflow_checks, memvars, bootvars, view>>

Htonl ==
    /\ last.outcome = "ok"
    /\ view.kind = "mut"
    /\ nwrites < MaxWrites
    /\ \E offset \in Offsets, value \in U32Values :
          LET res == htonl_unchecked(View, offset, value)
          IN  /\ buf' = Stored(res)
              /\ Record(offset, 4, value, res)
              /\ last' = Call("htonl", offset, 4, value, Outcome(res),
                               Stored(res) # buf)
    /\ UNCHANGED <<overflow_checks, memvars, bootvars, view>>

Shrink ==
    /\ last.outcome = "ok"
    /\ \E len \in Offsets :
          LET res == shrink_unchecked(View, len)
          IN  /\ view' = IF res.kind = "Some"
                         THEN [view EXCEPT !.len = Len(res.val)]
                         ELSE view
              /\ last' = Call("shrink", len, 0, 0, Outcome(res), FALSE)
    /\ UNCHANGED <<overflow_checks, memvars, bootvars,
                   buf, written, clean, nwrites>>

\* the mutable view is dropped and buf.as_ref() taken over the whole buffer
AsRef ==
    /\ last.outcome = "ok"
    /\ view.kind = "mut"
    /\ view' = [kind |-> "imm", len |-> Len(buf)]
    /\ last' = Call("as_ref", 0, 0, 0, "ok", FALSE)
    /\ UNCHANGED <<overflow_checks, memvars, bootvars,
                   buf, written, clean, nwrites>>

NextBytes == Htons \/ Htonl \/ Shrink \/ AsRef

----------------------------------------------------------------------------
(* Specifications *)

InitMem == MemInit /\ BootIdle /\ BytesIdle
SpecMem == InitMem /\ [][NextMem]_vars

InitBoot ==
    /\ overflow_checks = FALSE
    /\ guest_mem \in {ArchMem(FDT_MAX_SIZE - GUEST_PAGE_SIZE),
                      ArchMem(FDT_MAX_SIZE + GUEST_PAGE_SIZE)}
    /\ ret = NoCall
    /\ BootInit
    /\ BytesIdle
SpecBoot == InitBoot /\ [][NextBoot]_vars

InitBytes == BytesInit /\ MemIdle /\ BootIdle
SpecBytes == InitBytes /\ [][NextBytes]_vars

----------------------------------------------------------------------------
(* Properties of the layout helpers (SpecMem) *)

\* C1: arch_memory_regions(size) returns exactly one region, at
\* DRAM_MEM_START, whose length is size when size <= DRAM_MEM_MAX_SIZE and
\* DRAM_MEM_MAX_SIZE otherwise.
C1_OneClampedRegion ==
    ret.op = "arch_memory_regions" =>
        /\ Len(ret.out) = 1
        /\ ret.out[1][1] = DRAM_MEM_START
        /\ ret.arg <= DRAM_MEM_MAX_SIZE => ret.out[1][2] = ret.arg
        /\ ret.arg > DRAM_MEM_MAX_SIZE => ret.out[1][2] = DRAM_MEM_MAX_SIZE

C1_Witness_Clamped ==
    /\ ret.op = "arch_memory_regions"
    /\ ret.arg > DRAM_MEM_MAX_SIZE
    /\ ret.out = << <<DRAM_MEM_START, DRAM_MEM_MAX_SIZE>> >>

\* the candidate of get_fdt_addr as an integer: negative when the checked
\* subtraction underflows
FdtCandidate == last_addr(guest_mem) - (FDT_MAX_SIZE - 1)

FdtCandidateInRange ==
    FdtCandidate >= 0 /\ address_in_range(guest_mem, FdtCandidate)

\* C2: get_fdt_addr returns last_addr() - (FDT_MAX_SIZE - 1) when that
\* subtraction does not underflow and the candidate lies in guest memory, and
\* DRAM_MEM_START otherwise; a single DRAM region of FDT_MAX_SIZE - one page
\* or of FDT_MAX_SIZE yields DRAM_MEM_START, one of FDT_MAX_SIZE + one page
\* yields DRAM_MEM_START + one page.
C2_FdtAddrCandidateOrDramStart ==
    ret.op = "get_fdt_addr" =>
        /\ FdtCandidateInRange => ret.out = FdtCandidate
        /\ ~FdtCandidateInRange => ret.out = DRAM_MEM_START
        /\ guest_mem = ArchMem(FDT_MAX_SIZE - GUEST_PAGE_SIZE)
              => ret.out = DRAM_MEM_START
        /\ guest_mem = ArchMem(FDT_MAX_SIZE) => ret.out = DRAM_MEM_START
        /\ guest_mem = ArchMem(FDT_MAX_SIZE + GUEST_PAGE_SIZE)
              => ret.out = DRAM_MEM_START + GUEST_PAGE_SIZE

C2_Witness_OnePageOfSlack ==
    /\ ret.op = "get_fdt_addr"
    /\ guest_mem = ArchMem(FDT_MAX_SIZE + GUEST_PAGE_SIZE)
    /\ ret.out = DRAM_MEM_START + GUEST_PAGE_SIZE

\* C3 as stated: with the candidate in range get_fdt_addr is
\* last_addr() - (FDT_MAX_SIZE - 1) + 1, and DRAM_MEM_START otherwise.
C3_Original_CandidatePlusOne ==
    ret.op = "get_fdt_addr" =>
        IF FdtCandidateInRange
        THEN ret.out = last_addr(guest_mem) - (FDT_MAX_SIZE - 1) + 1
        ELSE ret.out = DRAM_MEM_START

\* C3 amended: with the candidate in range there are exactly FDT_MAX_SIZE
\* bytes from get_fdt_addr to last_addr() inclusive; otherwise get_fdt_addr
\* is DRAM_MEM_START.
C3_FdtSpansFdtMaxSize ==
    ret.op = "get_fdt_addr" =>
        IF FdtCandidateInRange
        THEN Cardinality(ret.out .. last_addr(guest_mem)) = FDT_MAX_SIZE
        ELSE ret.out = DRAM_MEM_START

C3_Witness_FdtAboveDramStart ==
    /\ ret.op = "get_fdt_addr"
    /\ FdtCandidateInRange
    /\ ret.out > DRAM_MEM_START
    /\ Len(guest_mem) = 2

\* C4 as stated: initrd_load_addr(mem, n) is None or a multiple of
\* GUEST_PAGE_SIZE strictly below get_fdt_addr(mem), for every mem and n.
C4_Original_AlignedStrictlyBelow ==
    (ret.op = "initrd_load_addr" /\ ret.out.kind = "Some") =>
        /\ ret.out.val % GUEST_PAGE_SIZE = 0
        /\ ret.out.val < get_fdt_addr(guest_mem)

\* C4 amended: an address initrd_load_addr(mem, n) returns is at or below
\* get_fdt_addr(mem) and a whole number of pages away from it, so it is a
\* multiple of GUEST_PAGE_SIZE whenever get_fdt_addr(mem) is one; it is
\* strictly below get_fdt_addr(mem) whenever
\* 1 <= n <= usize::MAX - (GUEST_PAGE_SIZE - 1).
C4_PagesBelowFdt ==
    (ret.op = "initrd_load_addr" /\ ret.out.kind = "Some") =>
        LET fdt == get_fdt_addr(guest_mem)
        IN  /\ ret.out.val <= fdt
            /\ (fdt - ret.out.val) % GUEST_PAGE_SIZE = 0
            /\ fdt % GUEST_PAGE_SIZE = 0 => ret.out.val % GUEST_PAGE_SIZE = 0
            /\ (1 <= ret.arg /\ ret.arg <= (WORD - 1) - (GUEST_PAGE_SIZE - 1))
                  => ret.out.val < fdt

C4_Witness_InitrdPlaced ==
    /\ ret.op = "initrd_load_addr"
    /\ ret.out.kind = "Some"
    /\ ret.arg > GUEST_PAGE_SIZE
    /\ ret.arg % GUEST_PAGE_SIZE # 0
    /\ ret.out.val % GUEST_PAGE_SIZE = 0
    /\ ret.out.val < get_fdt_addr(guest_mem)

\* C5: an address a returned by initrd_load_addr(mem, n) has
\* a + n <= get_fdt_addr(mem), and when rounding n up to GUEST_PAGE_SIZE or
\* subtracting the rounded size from the FDT address overflows the result is
\* None.
C5_InitrdEndsBelowFdtOverflowIsNone ==
    ret.op = "initrd_load_addr" =>
        LET fdt == get_fdt_addr(guest_mem)
            unwrapped == ret.arg + (GUEST_PAGE_SIZE - 1)
            rounding_overflows == unwrapped > WORD - 1
            rounded == unwrapped - (unwrapped % GUEST_PAGE_SIZE)
        IN  /\ ret.out.kind = "Some" => ret.out.val + ret.arg <= fdt
            /\ (rounding_overflows \/ rounded > fdt) => ret.out.kind = "None"

----------------------------------------------------------------------------
(* Properties of configure_system_for_boot (SpecBoot) *)

\* the steps of a call on n vcpus, in the order of the function's text
StepOrder(n) ==
    << <<"new", 0>>, <<"apply_template", 0>> >>
    \o [i \in 1 .. n |-> <<"configure", i>>]
    \o [i \in 1 .. n |-> <<"get_mpidr", i>>]
    \o << <<"as_cstring", 0>>, <<"create_fdt", 0>>, <<"write_slice", 0>> >>

\* the ConfigurationError a failing step is converted to; a cmdline that is
\* no C string is a panic
ErrorOf(step) ==
    CASE step = "new" -> "VcpuConfig"
      [] step = "configure" -> "VcpuConfigure"
      [] step = "as_cstring" -> "panic"
      [] step = "create_fdt" -> "SetupFDT"
      [] step = "write_slice" -> "MemoryError"
      [] OTHER -> "infallible"

\* C6: the steps of a call occur in the fixed order base configuration,
\* template, every vCPU programmed, every MPIDR read, FDT built, FDT written,
\* none skipped, repeated or reordered: all vCPUs are programmed before any
\* MPIDR is read, the FDT is built after all MPIDRs are collected, and the
\* write at get_fdt_addr is the last step and happens at most once.
C6_StepsInFixedOrder ==
    LET n == Len(vcpus)
    IN  /\ Len(trace) <= Len(StepOrder(n))
        /\ \A k \in 1 .. Len(trace) :
              <<trace[k].step, trace[k].i>> = StepOrder(n)[k]
        /\ vcpu_mpidr # <<>> => \A i \in 1 .. n : vcpus[i].configured
        /\ fdt_args.called => Len(vcpu_mpidr) = n
        /\ Len(fdt_writes) <= 1
        /\ fdt_writes # <<>> =>
              /\ pc = "returned"
              /\ trace[Len(trace)].step = "write_slice"
              /\ fdt_args.called /\ fdt_args.built
              /\ fdt_writes[1].addr = get_fdt_addr(guest_mem)

C6_Witness_BootedTwoVcpus ==
    /\ result = "Ok"
    /\ Len(vcpus) >= 2
    /\ Len(fdt_writes) = 1

\* C7: the first failing step ends the call with that step's error kind and
\* no later step runs: when programming vCPU i fails no later vCPU is
\* programmed, no MPIDR is read, no FDT is built and nothing is written; no
\* step is retried, the vCPUs programmed before the failure stay programmed,
\* and Ok is returned only when every step succeeded.
C7_FirstFailureAborts ==
    LET n == Len(vcpus)
        L == Len(trace)
    IN  /\ (result # "running") <=> (pc = "returned")
        /\ \A k \in 1 .. L :
              ~trace[k].ok =>
                  /\ k = L
                  /\ pc = "returned"
                  /\ result = ErrorOf(trace[k].step)
        /\ \A j, k \in 1 .. L :
              j < k => <<trace[j].step, trace[j].i>> # <<trace[k].step, trace[k].i>>
        /\ result = "VcpuConfig" =>
              /\ L = 1
              /\ \A j \in 1 .. n : ~vcpus[j].configured
        /\ result = "VcpuConfigure" =>
              /\ trace[L].step = "configure"
              /\ \A j \in 1 .. n : vcpus[j].configured <=> j < trace[L].i
        /\ result \in {"VcpuConfig", "VcpuConfigure"} =>
              /\ vcpu_mpidr = <<>>
              /\ ~fdt_args.called
              /\ fdt_writes = <<>>
        /\ result = "SetupFDT" =>
              /\ trace[L].step = "create_fdt"
              /\ ~fdt_args.built
              /\ fdt_writes = <<>>
        /\ result = "MemoryError" =>
              /\ trace[L].step = "write_slice"
              /\ ~fdt_writes[1].ok
        /\ result = "Ok" =>
              /\ L = Len(StepOrder(n))
              /\ \A k \in 1 .. L : trace[k].ok

C7_Witness_SecondVcpuFails ==
    /\ result = "VcpuConfigure"
    /\ Len(vcpus) = 3
    /\ trace[Len(trace)].i = 2
    /\ vcpus[1].configured

\* C8: the MPIDR list handed to the FDT builder has one entry per vCPU, its
\* i-th entry is the MPIDR of the i-th vCPU of the slice, read after every
\* vCPU was programmed.
C8_MpidrsInSliceOrder ==
    fdt_args.called =>
        /\ Len(fdt_args.mpidrs) = Len(vcpus)
        /\ \A i \in 1 .. Len(vcpus) : fdt_args.mpidrs[i] = vcpus[i].mpidr
        /\ \A j, k \in 1 .. Len(trace) :
              (trace[j].step = "configure" /\ trace[k].step = "get_mpidr") => j < k

C8_Witness_DistinctMpidrs ==
    /\ fdt_args.called
    /\ Len(vcpus) = 3
    /\ vcpus[1].mpidr > vcpus[2].mpidr
    /\ vcpus[2].mpidr > vcpus[3].mpidr

----------------------------------------------------------------------------
(* Properties of the byte accessors (SpecBytes) *)

ReadBack(e) ==
    IF e.width = 2
    THEN ntohs_unchecked(View, e.offset)
    ELSE ntohl_unchecked(View, e.offset)

\* C9: after in-bounds, non-overlapping writes and shrinks, a read at an
\* offset returns the value last written there as long as offset + width is
\* within the current length, through the mutable view and through an
\* immutable view over the same buffer; shrink_unchecked(new_len) with
\* new_len <= len makes the length new_len and changes no byte.
C9_ReadsReturnLastWritten ==
    /\ clean =>
          \A e \in written :
              e.offset + e.width <= view.len => ReadBack(e) = Some(e.value)
    /\ (last.op = "shrink" /\ last.offset <= last.len) =>
          /\ last.outcome = "ok"
          /\ view.len = last.offset
          /\ ~last.changed

C9_Witness_ShrunkImmutableView ==
    /\ clean
    /\ view.kind = "imm"
    /\ last.op = "shrink"
    /\ view.len < Len(buf)
    /\ \E e \in written : e.width = 4 /\ e.offset + e.width <= view.len
    /\ \E e \in written : e.width = 2

\* C10: htons_unchecked and htonl_unchecked panic whenever
\* offset + width > len, buffers shorter than the width included, and then
\* no byte is modified; a write succeeds exactly when offset + width <= len.
C10_WritePanicsIffOutOfBounds ==
    last.op \in {"htons", "htonl"} =>
        /\ (last.outcome = "ok") <=> (last.offset + last.width <= last.len)
        /\ last.offset + last.width > last.len =>
              (last.outcome = "panic" /\ ~last.changed)

====
